---------------------------- MODULE Spec2Model ----------------------------
(***************************************************************************)
(* Model of arch/multivariate/base.py: MultivariateARCHModel.fit,          *)
(* compute_param_cov, _loglikelihood, _parse_parameters, starting_values   *)
(* and the module-level progress counters.                                 *)
(*                                                                         *)
(* Real numbers are modelled by small integers.  A numpy vector is a       *)
(* sequence; a numpy matrix is a record [shape |-> <<rows, cols>>,         *)
(* val |-> sequence of rows], so that a matrix with zero rows still has a  *)
(* column count (numpy's a.shape).                                         *)
(***************************************************************************)
EXTENDS Integers, Sequences, FiniteSets, TLC

VARIABLES
    \* ---- the model instance (set by __init__ and the sub-models) ----
    has_data,            \* self._y.original is not None
    offsets,             \* (self.num_params, v.num_params, d.num_params)
    nvar,                \* self.nvar
    closed_form,         \* self.volatility.closed_form
    cf_implemented,      \* cov_type values _fit_no_arch_normal_errors supports
    constraints,         \* (self.constraints(), v.constraints(), d.constraints())
    \* ---- instance attributes written by fit / compute_param_cov ----
    _backcast,           \* self._backcast
    _fit_indices,        \* self._fit_indices
    \* ---- module-level progress state ----
    _callback_iter,
    _callback_func_count,
    _callback_llf,
    \* ---- the running call: position and locals ----
    pc,                  \* position inside fit ("idle" between calls)
    call,                \* arguments of the running / last call
    resids,              \* local resids
    backcast,            \* local backcast
    a,                   \* assembled constraint matrix
    b,                   \* assembled constraint vector
    bounds,              \* local bounds: one (lo, hi) pair per parameter
    sv,                  \* starting point handed to the optimizer
    opt,                 \* what minimize returned
    final,               \* resids_final / cov_final and what fit returned
    outcome,             \* how the last call ended
    warned,              \* warnings emitted by the running / last call
    log,                 \* collaborator calls of the running / last call, in order
    \* ---- _parse_parameters ----
    params,              \* a flat parameter vector
    parts                \* the split of params

model_vars == << has_data, offsets, nvar, closed_form, cf_implemented,
                constraints >>
callback_vars == << _callback_iter, _callback_func_count, _callback_llf >>
fit_vars == << _backcast, _fit_indices, call, resids, backcast, sv, opt, final,
              outcome, warned, log >>

vars == << model_vars, callback_vars, fit_vars, pc, a, b, bounds, params, parts >>

(***************************************************************************)
(* Bounds of the model                                                     *)
(***************************************************************************)
MaxK == 1        \* parameters per sub-model: 0..MaxK
MaxR == 1        \* constraint rows per sub-model: 0..MaxR
MaxLen == 4      \* longest flat vector handed to _parse_parameters
NObs == 3        \* length of the original sample
MaxSvLen == 2    \* longest caller-supplied starting-value vector
MaxEvals == 1    \* objective evaluations made by one minimize call
MaxIter == 1     \* iterations (callback calls) of one minimize call
MaxNVar == 3     \* variables of the model handed to starting_values alone

(***************************************************************************)
(* Values                                                                  *)
(***************************************************************************)
NoValue == [some |-> FALSE, val |-> <<>>]
Some(v) == [some |-> TRUE, val |-> v]

Min(x, y) == IF x <= y THEN x ELSE y
Max(x, y) == IF x >= y THEN x ELSE y

RECURSIVE SumSeq(_)
SumSeq(s) == IF s = <<>> THEN 0 ELSE Head(s) + SumSeq(Tail(s))

RECURSIVE Pow2(_)
Pow2(n) == IF n = 0 THEN 1 ELSE 2 * Pow2(n - 1)

\* Vectors of length 0..n over S
VectorsUpTo(S, n) == UNION { [1..k -> S] : k \in 0..n }

\* Python's normalisation of one slice index against a length
SliceIndex(i, n) == IF i < 0 THEN Max(0, n + i) ELSE Min(i, n)

\* Python / numpy s[lo:hi] (step 1); indices are 0-based as in the source
PySlice(s, lo, hi) ==
    LET n == Len(s)
        l == SliceIndex(lo, n)
        h == SliceIndex(hi, n)
    IN  IF h <= l THEN <<>> ELSE [i \in 1..(h - l) |-> s[l + i]]

(***************************************************************************)
(* _parse_parameters (base.py 214-218)                                     *)
(***************************************************************************)
ParseSplitSwapped(p, km, kv) ==
    << PySlice(p, 0, kv), PySlice(p, kv, km + kv), PySlice(p, km + kv, Len(p)) >>

ParseSplit(p, km, kv) ==
    << PySlice(p, 0, km), PySlice(p, km, km + kv), PySlice(p, km + kv, Len(p)) >>

_parse_parameters(p) == ParseSplit(p, offsets[1], offsets[2])


(***************************************************************************)
(* Constraint assembly (base.py 315-334)                                   *)
(***************************************************************************)
\* np.zeros((rows, cols))
Zeros(rows, cols) ==
    [shape |-> <<rows, cols>>,
     val   |-> [r \in 1..rows |-> [c \in 1..cols |-> 0]]]

\* m[r_st:r_st+rows(blk), c_st:c_st+cols(blk)] = blk
SetBlock(m, r_st, c_st, blk) ==
    [m EXCEPT !.val =
        [r \in 1..m.shape[1] |->
            [c \in 1..m.shape[2] |->
                IF /\ r > r_st /\ r <= r_st + blk.shape[1]
                   /\ c > c_st /\ c <= c_st + blk.shape[2]
                THEN blk.val[r - r_st][c - c_st]
                ELSE m.val[r][c]]]]

\* v[r_st:r_st+len(part)] = part
SetRange(v, r_st, part) ==
    [r \in 1..Len(v) |->
        IF r > r_st /\ r <= r_st + Len(part) THEN part[r - r_st] ELSE v[r]]

\* num_constraints = [c[0].shape[0] for c in constraints]
NumConstraints(cons) == [i \in 1..Len(cons) |-> cons[i].A.shape[1]]

\* r_en = num_constraints[:i + 1].sum(); r_st = r_en - num_constraints[i]
RowEnd(nc, i) == SumSeq(PySlice(nc, 0, i))
RowStart(nc, i) == RowEnd(nc, i) - nc[i]

\* c_en = offsets[:i + 1].sum(); c_st = c_en - offsets[i]
ColEnd(off, i) == SumSeq(PySlice(off, 0, i))
ColStartStacked(off, i) == 0
ColStart(off, i) == ColEnd(off, i) - off[i]

\* one pass of the loop body, for sub-model i (1-based)
AssembleStep(sys, cons, off, i) ==
    LET nc   == NumConstraints(cons)
        r_en == RowEnd(nc, i)
        r_st == RowStart(nc, i)
        c_st == ColStart(off, i)
    IN  IF r_en - r_st > 0
        THEN [a |-> SetBlock(sys.a, r_st, c_st, cons[i].A),
              b |-> SetRange(sys.b, r_st, cons[i].b)]
        ELSE sys

RECURSIVE AssembleLoop(_, _, _, _)
AssembleLoop(sys, cons, off, i) ==
    IF i > Len(cons) THEN sys
    ELSE AssembleLoop(AssembleStep(sys, cons, off, i), cons, off, i + 1)

\* lines 320-334 as a whole
Assemble(cons, off) ==
    LET nc   == NumConstraints(cons)
        rows == SumSeq(nc)
        cols == SumSeq(off)
    IN  AssembleLoop([a |-> Zeros(rows, cols), b |-> [r \in 1..rows |-> 0]],
                     cons, off, 1)

(***************************************************************************)
(* Input sets                                                              *)
(***************************************************************************)
CoefScales == {-1, 0, 1}
ParamVals == {1, 2}

\* (A_i, b_i) with r rows and k columns: the entries of A_i are pairwise
\* different multiples of a scale (0: the zero matrix), so that an entry
\* copied to a wrong place shows
SubConstraints(k, r) ==
    { [A |-> [shape |-> <<r, k>>,
              val   |-> [i \in 1..r |-> [j \in 1..k |-> s * (10 * i + j)]]],
       b |-> [i \in 1..r |-> s * (5 + i)]] : s \in CoefScales }

AllSubConstraints ==
    UNION { SubConstraints(k, r) : k \in 0..MaxK, r \in 0..MaxR }

EmptySystem == [a |-> Zeros(0, 0), b |-> <<>>]
NoOpt == [x |-> <<>>, status |-> 0, fun |-> 0, iters |-> 0]
NoFinal == [resids_final |-> <<>>, cov_final |-> <<>>, params |-> <<>>,
            window |-> <<0, 0>>, path |-> "none", backcast |-> NoValue]
NoCall == [op |-> "none", cov_type |-> "robust", starting_values |-> NoValue,
           used |-> "none", backcast |-> NoValue, show_warning |-> TRUE,
           robust |-> TRUE, individual |-> FALSE,
           window |-> << NoValue, NoValue >>]

\* the variables a specification of one pure function leaves alone
InitIdleFit ==
    /\ has_data = TRUE
    /\ closed_form = FALSE
    /\ cf_implemented = {}
    /\ _backcast = NoValue
    /\ _fit_indices = NoValue
    /\ _callback_iter = 0
    /\ _callback_func_count = 0
    /\ _callback_llf = 0
    /\ call = NoCall
    /\ resids = <<>>
    /\ backcast = NoValue
    /\ sv = <<>>
    /\ opt = NoOpt
    /\ final = NoFinal
    /\ outcome = "none"
    /\ warned = {}
    /\ log = <<>>

(***************************************************************************)
(* Specification of _parse_parameters alone                                *)
(***************************************************************************)
InitParse ==
    /\ InitIdleFit
    /\ nvar = 2
    /\ offsets \in [1..3 -> 0..MaxK]
    /\ constraints = <<>>
    /\ a = EmptySystem.a
    /\ b = EmptySystem.b
    /\ bounds = <<>>
    /\ params \in VectorsUpTo(ParamVals, MaxLen)
    /\ parts = <<>>
    /\ pc = "parse_call"

\* the function has no raise: slicing clamps, so every call returns
ParseParameters ==
    /\ pc = "parse_call"
    /\ parts' = _parse_parameters(params)
    /\ outcome' = "returned"
    /\ pc' = "parse_done"
    /\ UNCHANGED << model_vars, callback_vars, _backcast, _fit_indices, call,
                    resids, backcast, sv, opt, final, warned, log, a, b, bounds,
                    params >>

NextParse == ParseParameters

SpecParse == InitParse /\ [][NextParse]_vars

(***************************************************************************)
(* Specification of the constraint assembly alone                          *)
(***************************************************************************)
InitAssemble ==
    /\ InitIdleFit
    /\ nvar = 2
    /\ constraints \in [1..3 -> AllSubConstraints]
    /\ offsets = [i \in 1..3 |-> constraints[i].A.shape[2]]
    /\ a = EmptySystem.a
    /\ b = EmptySystem.b
    /\ bounds = <<>>
    /\ params = <<>>
    /\ parts = <<>>
    /\ pc = "assemble_call"

AssembleConstraints ==
    /\ pc = "assemble_call"
    /\ a' = Assemble(constraints, offsets).a
    /\ b' = Assemble(constraints, offsets).b
    /\ pc' = "assemble_done"
    /\ UNCHANGED << model_vars, callback_vars, fit_vars, bounds, params, parts >>

NextAssemble == AssembleConstraints

SpecAssemble == InitAssemble /\ [][NextAssemble]_vars

(***************************************************************************)
(* Collaborators of the fit: the data, the mean model, the volatility      *)
(* process and the distribution, each reduced to a deterministic function  *)
(* of what the source hands to it.                                         *)
(***************************************************************************)
CovTypes == {"robust", "classic"}
NVars == {2}
SvVals == {0, 1, 3}
BoundPair == <<0, 2>>              \* every sub-model bounds its parameters by (0, 2)
OptStatus == {0, 9}                \* minimize: 0 converged, 9 iteration limit

\* the original sample y_1 .. y_NObs
Y == [t \in 1..NObs |-> Pow2(t - 1)]

Ones(n) == [i \in 1..n |-> 1]

\* _adjust_sample(first_obs, last_obs): Python semantics of first_obs:last_obs
AdjustSample(first_obs, last_obs) ==
    << IF first_obs.some THEN first_obs.val ELSE 0,
       IF last_obs.some THEN last_obs.val ELSE NObs >>

\* the sample the model currently estimates on: y[first:last]
FitY(indices) ==
    IF indices.some THEN PySlice(Y, indices.val[1], indices.val[2]) ELSE Y

\* self.resids(mean parameters) on the current sample
Resids(mp, indices) ==
    LET y == FitY(indices) IN [t \in 1..Len(y) |-> y[t] - SumSeq(mp)]

\* v.backcast(resids)
Backcast(r) == SumSeq(r) + Len(r)

\* v.starting_values(resids), d.starting_values(std_resids)
VolStartingValues == Ones(offsets[2])
DistStartingValues == Ones(offsets[3])

\* v.compute_covariance(vp, resids, sigma, backcast): one value per time step
ComputeCovariance(vp, r, bc) == [t \in 1..Len(r) |-> bc + SumSeq(vp) + r[t]]

\* d.loglikelihood(dp, resids, sigma, individual=False)
DistLogLikelihood(dp, r, sigma) ==
    ((SumSeq(dp) + SumSeq(r) + SumSeq(sigma)) % 3) - 1

\* bounds = self.bounds(); bounds.extend(v.bounds(..)); bounds.extend(d.bounds(..))
ExtendBounds(mean, vol, dist) == (mean \o vol) \o dist

\* the bounds list of a sub-model with k parameters
SubModelBounds(k) == [i \in 1..k |-> BoundPair]

Bounds == ExtendBounds(SubModelBounds(offsets[1]), SubModelBounds(offsets[2]),
                       SubModelBounds(offsets[3]))

\* self._fit_no_arch_normal_errors(cov_type): the closed-form estimate, the
\* mean parameters followed by the distinct covariance entries; None stands
\* for the NotImplementedError it raises for a cov_type it does not support
DistinctCov == (nvar * (nvar + 1)) \div 2
FitNoArchNormalErrors(cov_type) ==
    IF cov_type \in cf_implemented
    THEN Some(Ones(offsets[1] + DistinctCov))
    ELSE NoValue

(***************************************************************************)
(* starting_values (base.py 433-449)                                       *)
(***************************************************************************)
\* params.shape == distinct_cov compares a tuple with an int: never equal
ShapeEqualsInt(shape, n) == FALSE

\* "raise" | "none" (falls off the end: returns None) | "value", for what
\* self._fit_no_arch_normal_errors() gave
StartingValuesOf(est) ==
    LET p == est.val
    IN  IF ~est.some THEN [kind |-> "raise", val |-> <<>>]
        ELSE IF ShapeEqualsInt(<<Len(p)>>, DistinctCov)
             THEN [kind |-> "value", val |-> <<>>]
        ELSE IF Len(p) > 1
             THEN [kind |-> "value", val |-> PySlice(p, 0, 0 - DistinctCov)]
        ELSE [kind |-> "none", val |-> <<>>]

StartingValues == StartingValuesOf(FitNoArchNormalErrors("robust"))

(***************************************************************************)
(* Specification of starting_values alone: a model of nvar variables whose *)
(* closed-form estimator returns params, the m mean parameters followed by *)
(* the nvar*(nvar+1)/2 distinct covariance entries.                        *)
(***************************************************************************)
InitStartingValues ==
    /\ InitIdleFit
    /\ nvar \in 1..MaxNVar
    /\ \E m \in 0..MaxK : offsets = << m, 0, 0 >>
    /\ constraints = <<>>
    /\ a = EmptySystem.a
    /\ b = EmptySystem.b
    /\ bounds = <<>>
    /\ params \in [1..(offsets[1] + DistinctCov) -> ParamVals]
    /\ parts = <<>>
    /\ pc = "sv_call"

DefaultStartingValues ==
    /\ pc = "sv_call"
    /\ LET start == StartingValuesOf(Some(params)) IN
        /\ sv' = start.val
        /\ outcome' = IF start.kind = "none" THEN "returned None" ELSE "returned"
    /\ log' = << "_fit_no_arch_normal_errors" >>
    /\ pc' = "sv_done"
    /\ UNCHANGED << model_vars, callback_vars, _backcast, _fit_indices, call,
                    resids, backcast, opt, final, warned, a, b, bounds, params,
                    parts >>

NextStartingValues == DefaultStartingValues

SpecStartingValues == InitStartingValues /\ [][NextStartingValues]_vars

\* d.loglikelihood(dp, resids, sigma, individual=True): one value per time step
DistLogLikelihoodIndividual(dp, r, sigma) ==
    [t \in 1..Len(r) |-> ((SumSeq(dp) + r[t] + sigma[t]) % 3) - 1]

(***************************************************************************)
(* _loglikelihood (base.py 172-202): the value it returns                  *)
(***************************************************************************)
\* -1.0 * llf, for a float and for an array of floats
NegateKept(llf, individual) == llf
Negate(llf, individual) ==
    IF individual THEN [t \in 1..Len(llf) |-> (0 - 1) * llf[t]]
    ELSE (0 - 1) * llf

NegLogLikelihood(parameters, bc, indices, individual) ==
    LET pr    == _parse_parameters(parameters)
        r     == Resids(pr[1], indices)
        sigma == ComputeCovariance(pr[2], r, bc)
        llf   == IF individual THEN DistLogLikelihoodIndividual(pr[3], r, sigma)
                 ELSE DistLogLikelihood(pr[3], r, sigma)
    IN  Negate(llf, individual)

\* individual left at its default
LogLikelihood(parameters, bc, indices) ==
    NegLogLikelihood(parameters, bc, indices, FALSE)

\* Python's binding of a call f(x, **kwargs) to a signature: the keywords must
\* name parameters not bound positionally and every required one must be bound
LogLikelihoodSignature == << "parameters", "sigma", "backcast", "individual" >>
LogLikelihoodRequired == {"parameters", "sigma", "backcast"}
Binds(npos, kwargs) ==
    LET positional == {LogLikelihoodSignature[i] : i \in 1..npos}
        named      == {LogLikelihoodSignature[i] : i \in 1..Len(LogLikelihoodSignature)}
    IN  /\ kwargs \subseteq (named \ positional)
        /\ LogLikelihoodRequired \subseteq (positional \cup kwargs)

\* (_callback_iter, _callback_func_count, _callback_llf) left by earlier calls
PriorProgress == { << 0, 0, 0 >>, << 1, 2, 0 - 1 >> }

(***************************************************************************)
(* Specification of _loglikelihood alone: one call with a parameter vector *)
(* of the model's length, a backcast and the individual flag, on the full  *)
(* sample, whatever the progress state is.                                 *)
(***************************************************************************)
InitLikelihood ==
    /\ has_data = TRUE
    /\ nvar = 2
    /\ closed_form = FALSE
    /\ cf_implemented = {}
    /\ offsets \in [1..3 -> 0..MaxK]
    /\ constraints = <<>>
    /\ _backcast = NoValue
    /\ _fit_indices = NoValue
    /\ \E prior \in PriorProgress :
            /\ _callback_iter = prior[1]
            /\ _callback_func_count = prior[2]
            /\ _callback_llf = prior[3]
    /\ \E individual \in BOOLEAN :
            call = [NoCall EXCEPT !.op = "_loglikelihood",
                                  !.individual = individual]
    /\ params \in [1..(offsets[1] + offsets[2] + offsets[3]) -> ParamVals]
    /\ backcast \in {Some(0), Some(1)}
    /\ resids = <<>>
    /\ sv = <<>>
    /\ opt = NoOpt
    /\ final = NoFinal
    /\ outcome = "none"
    /\ warned = {}
    /\ log = <<>>
    /\ a = EmptySystem.a
    /\ b = EmptySystem.b
    /\ bounds = <<>>
    /\ parts = <<>>
    /\ pc = "llf_call"

\* lines 189-202
EvaluateLikelihood ==
    /\ pc = "llf_call"
    /\ _callback_func_count' = _callback_func_count + 1
    /\ parts' = _parse_parameters(params)
    /\ resids' = Resids(_parse_parameters(params)[1], _fit_indices)
    /\ _callback_llf' = NegLogLikelihood(params, backcast.val, _fit_indices,
                                         call.individual)
    /\ outcome' = "returned"
    /\ log' = << "_parse_parameters", "resids", "v.compute_covariance",
                 "d.loglikelihood" >>
    /\ pc' = "llf_done"
    /\ UNCHANGED << model_vars, _callback_iter, _backcast, _fit_indices, call,
                    backcast, sv, opt, final, warned, a, b, bounds, params >>

NextLikelihood == EvaluateLikelihood

SpecLikelihood == InitLikelihood /\ [][NextLikelihood]_vars

(***************************************************************************)
(* fit (base.py 238-420), one action per stretch of the body               *)
(*                                                                         *)
(* An argument of fit is drawn at the step that first reads it; no step    *)
(* before it depends on the argument, so the behaviours are those of       *)
(* drawing every argument on entry.                                        *)
(***************************************************************************)
TotalParams == offsets[1] + offsets[2] + offsets[3]

\* line 293
HasClosedFormSwapped == (closed_form /\ offsets[3] # 0) \/ TotalParams = 0
HasClosedForm == (closed_form /\ offsets[3] = 0) \/ TotalParams = 0

\* (first_obs, last_obs) as passed: both None, or a window of the sample
Windows ==
    { << NoValue, NoValue >> } \cup
    { << Some(i), Some(j) >> : i \in 0..NObs, j \in 0..NObs }

FitCall == [NoCall EXCEPT !.op = "fit"]

\* line 284: self._y.original is None
NoDataIgnored == FALSE
NoData == ~has_data

\* line 295: self._adjust_sample(first_obs, last_obs) sets self._fit_indices
AdjustedIndicesKept(given) == _fit_indices
AdjustedIndices(given) == Some(AdjustSample(given[1], given[2]))

\* lines 284-295
FitEnter ==
    /\ pc = "idle"
    /\ \E given \in Windows :
        LET w == AdjustSample(given[1], given[2]) IN
        /\ w[1] <= w[2]
        /\ call' = [FitCall EXCEPT !.window = given]
        /\ resids' = <<>>
        /\ backcast' = NoValue
        /\ sv' = <<>>
        /\ opt' = NoOpt
        /\ final' = NoFinal
        /\ warned' = {}
        /\ a' = EmptySystem.a
        /\ b' = EmptySystem.b
        /\ bounds' = <<>>
        /\ parts' = <<>>
        /\ IF NoData
           THEN /\ outcome' = "RuntimeError"
                /\ log' = <<>>
                /\ pc' = "idle"
                /\ UNCHANGED _fit_indices
           ELSE /\ outcome' = "running"
                /\ _fit_indices' = AdjustedIndices(given)
                /\ log' = << "_adjust_sample" >>
                /\ pc' = IF HasClosedForm THEN "closed_form" ELSE "resids"
    /\ UNCHANGED << model_vars, callback_vars, _backcast, params >>

\* lines 297-301
FitClosedForm ==
    /\ pc = "closed_form"
    /\ \E cov_type \in CovTypes :
        LET est == FitNoArchNormalErrors(cov_type) IN
        /\ call' = [call EXCEPT !.cov_type = cov_type]
        /\ IF est.some
           THEN /\ log' = log \o << "_fit_no_arch_normal_errors" >>
                /\ final' = [NoFinal EXCEPT !.params = est.val,
                                            !.window = _fit_indices.val,
                                            !.path = "closed_form"]
                /\ outcome' = "returned"
                /\ pc' = "idle"
           ELSE /\ log' = log \o << "_fit_no_arch_normal_errors",
                                    "except NotImplementedError" >>
                /\ pc' = "resids"
                /\ UNCHANGED << final, outcome >>
    /\ UNCHANGED << model_vars, callback_vars, _backcast, _fit_indices, resids,
                    backcast, sv, opt, warned, a, b, bounds, params, parts >>

\* lines 303-313
FitResids ==
    /\ pc = "resids"
    /\ LET start == StartingValues IN
       IF start.kind = "raise"
       THEN /\ log' = log \o << "starting_values" >>
            /\ outcome' = "NotImplementedError"
            /\ pc' = "idle"
            /\ UNCHANGED << resids, backcast, _backcast >>
       ELSE LET r == Resids(start.val, _fit_indices) IN
            /\ resids' = r
            /\ backcast' = Some(Backcast(r))
            /\ _backcast' = Some(Backcast(r))
            /\ log' = log \o << "starting_values", "resids", "v.backcast",
                                "v.starting_values", "v.compute_covariance" >>
            /\ pc' = "constraints"
            /\ UNCHANGED outcome
    /\ UNCHANGED << model_vars, callback_vars, _fit_indices, call, sv, opt,
                    final, warned, a, b, bounds, params, parts >>

\* lines 315-338
FitConstraints ==
    /\ pc = "constraints"
    /\ a' = Assemble(constraints, offsets).a
    /\ b' = Assemble(constraints, offsets).b
    /\ log' = log \o << "constraints", "bounds" >>
    /\ pc' = "starting_values"
    /\ bounds' = Bounds
    /\ UNCHANGED << model_vars, callback_vars, _backcast, _fit_indices, call,
                    resids, backcast, sv, opt, final, outcome, warned, params,
                    parts >>

(***************************************************************************)
(* Starting values (base.py 340-358)                                       *)
(***************************************************************************)
\* a.dot(x)[r]
Dot(row, x) == SumSeq([j \in 1..Len(row) |-> row[j] * x[j]])

\* (a.dot(sv) - b > 0).all()
SatisfiesConstraints(am, bv, x) ==
    \A r \in 1..am.shape[1] : Dot(am.val[r], x) - bv[r] > 0

\* bound[0] <= sv[i] <= bound[1] for every bound
WithinBounds(x, bds) ==
    \A i \in 1..Len(bds) : bds[i][1] <= x[i] /\ x[i] <= bds[i][2]

\* lines 344-349: "valid", "invalid", or the ValueError numpy raises when
\* a.dot(sv) is given a vector whose length is not a's column count
ValidateStartingValues(x, am, bv, bds) ==
    IF am.shape[1] > 0 /\ Len(x) # am.shape[2]
    THEN "ValueError"
    ELSE IF /\ Len(x) = TotalParams
            /\ (am.shape[1] > 0 => SatisfiesConstraints(am, bv, x))
            /\ WithinBounds(x, bds)
         THEN "valid"
         ELSE "invalid"

\* the element np.hstack makes of a None among its arguments
PyNone == 0 - 1000

\* np.hstack((mean, vol, dist))
HStackSwapped(mean, vol, dist) == (vol \o mean) \o dist
HStack(mean, vol, dist) == (mean \o vol) \o dist

\* lines 355-358
SynthesizedStartingValues ==
    LET start == StartingValues
        mean  == IF start.kind = "none" THEN << PyNone >> ELSE start.val
    IN  HStack(mean, VolStartingValues, DistStartingValues)

UserStartingValues ==
    {NoValue} \cup {Some(x) : x \in VectorsUpTo(SvVals, MaxSvLen)}

\* lines 340-358
FitStartingValues ==
    /\ pc = "starting_values"
    /\ \E starting_values \in UserStartingValues :
        LET check == IF starting_values.some
                     THEN ValidateStartingValues(starting_values.val, a, b, bounds)
                     ELSE "none"
        IN
        /\ log' = log \o << "starting value resolution" >>
        /\ IF check = "ValueError"
           THEN /\ call' = [call EXCEPT !.starting_values = starting_values]
                /\ outcome' = "ValueError"
                /\ pc' = "idle"
                /\ UNCHANGED << sv, warned >>
           ELSE /\ call' = [call EXCEPT
                              !.starting_values = starting_values,
                              !.used = IF check = "valid" THEN "user" ELSE "default"]
                /\ sv' = IF check = "valid" THEN starting_values.val
                         ELSE SynthesizedStartingValues
                /\ warned' = IF check = "invalid"
                             THEN warned \cup {"StartingValueWarning"}
                             ELSE warned
                /\ pc' = "minimize"
                /\ UNCHANGED outcome
    /\ UNCHANGED << model_vars, callback_vars, _backcast, _fit_indices, resids,
                    backcast, opt, final, a, b, bounds, params, parts >>

(***************************************************************************)
(* Optimization (base.py 360-380)                                          *)
(***************************************************************************)
\* the points minimize may return
Candidates(x0) == { x0, Ones(Len(x0)) }

FitMinimize ==
    /\ pc = "minimize"
    /\ IF \E i \in 1..Len(sv) : sv[i] = PyNone
       THEN \* the starting point is not numeric
            /\ _callback_func_count' = 1
            /\ _callback_iter' = 0
            /\ _callback_llf' = LogLikelihood(<<>>, backcast.val, _fit_indices)
            /\ outcome' = "TypeError"
            /\ log' = log \o << "_loglikelihood" >>
            /\ pc' = "idle"
            /\ UNCHANGED opt
       ELSE \E evals \in 1..MaxEvals, iters \in 0..MaxIter,
               status \in OptStatus, x \in Candidates(sv) :
            /\ iters <= evals
            \* line 362, the priming call of line 373, then minimize's calls
            /\ _callback_func_count' = 0 + 1 + evals
            /\ _callback_iter' = 0 + iters
            /\ _callback_llf' = LogLikelihood(x, backcast.val, _fit_indices)
            /\ opt' = [x |-> x, status |-> status,
                       fun |-> LogLikelihood(x, backcast.val, _fit_indices),
                       iters |-> iters]
            /\ log' = log \o << "_loglikelihood", "minimize" >>
            /\ pc' = "finish"
            /\ UNCHANGED outcome
    \* line 352: from here on starting_values is None or is sv itself
    /\ call' = [call EXCEPT !.starting_values = NoValue]
    /\ UNCHANGED << model_vars, _backcast, _fit_indices, resids, backcast,
                    sv, final, warned, a, b, bounds, params, parts >>

(***************************************************************************)
(* Results (base.py 382-418)                                               *)
(***************************************************************************)
Num(v) == [nan |-> FALSE, v |-> v]
NaNCell == [nan |-> TRUE, v |-> 0]

\* np.full((n, ...), np.nan)
FullNaN(n) == [i \in 1..n |-> NaNCell]

\* target[lo:hi] = src, with numpy's broadcasting of a source of length 1;
\* None stands for the ValueError of a shape mismatch
SliceAssign(target, lo, hi, src) ==
    LET n == Len(target)
        l == SliceIndex(lo, n)
        h == SliceIndex(hi, n)
        m == Max(h - l, 0)
    IN  IF m = Len(src)
        THEN Some([i \in 1..n |->
                    IF i > l /\ i <= h THEN Num(src[i - l]) ELSE target[i]])
        ELSE IF Len(src) = 1
        THEN Some([i \in 1..n |->
                    IF i > l /\ i <= h THEN Num(src[1]) ELSE target[i]])
        ELSE NoValue

FitReturn ==
    /\ pc = "finish"
    /\ \E show_warning \in BOOLEAN :
        LET pr        == _parse_parameters(opt.x)
            nobs      == Len(resids)                      \* line 304
            r         == Resids(pr[1], _fit_indices)      \* line 398
            cov       == ComputeCovariance(pr[2], r, backcast.val)
            first_obs == _fit_indices.val[1]
            last_obs  == _fit_indices.val[2]
            rf        == SliceAssign(FullNaN(nobs), first_obs, last_obs, r)
            cf        == SliceAssign(FullNaN(nobs), first_obs, last_obs, cov)
        IN
        /\ call' = [call EXCEPT !.show_warning = show_warning]
        /\ warned' = IF opt.status # 0 /\ show_warning
                     THEN warned \cup {"ConvergenceWarning"}
                     ELSE warned
        /\ parts' = pr
        /\ resids' = r
        /\ log' = log \o << "_parse_parameters", "resids",
                            "v.compute_covariance", "_r2", "reshape" >>
        /\ IF rf.some /\ cf.some
           THEN /\ final' = [resids_final |-> rf.val, cov_final |-> cf.val,
                             params |-> opt.x, window |-> _fit_indices.val,
                             path |-> "general", backcast |-> backcast]
                /\ outcome' = "returned"
           ELSE /\ outcome' = "ValueError"
                /\ UNCHANGED final
        /\ pc' = "idle"
    /\ UNCHANGED << model_vars, callback_vars, _backcast, _fit_indices,
                    backcast, sv, opt, a, b, bounds, params >>

(***************************************************************************)
(* compute_param_cov (base.py 485-523)                                     *)
(***************************************************************************)
\* the keywords handed to approx_hess / approx_fprime for self._loglikelihood
ParamCovKwargs == {"sigma2", "backcast", "var_bounds", "individual"}

ExplicitBackcast == {NoValue, Some(0)}

ComputeParamCov ==
    /\ pc = "idle"
    /\ has_data
    /\ \E bc \in ExplicitBackcast, robust \in BOOLEAN :
        LET start == StartingValues
            r     == Resids(start.val, _fit_indices)
            fresh == ~bc.some /\ ~_backcast.some
            used  == IF fresh THEN Some(Backcast(r))
                     ELSE IF ~bc.some THEN _backcast
                     ELSE bc
        IN
        /\ call' = [NoCall EXCEPT !.op = "compute_param_cov",
                                  !.backcast = bc, !.robust = robust]
        /\ warned' = {}
        /\ sv' = <<>>
        /\ opt' = NoOpt
        /\ a' = EmptySystem.a
        /\ b' = EmptySystem.b
        /\ bounds' = <<>>
        /\ IF start.kind = "raise"
           THEN /\ log' = << "starting_values" >>
                /\ outcome' = "NotImplementedError"
                /\ resids' = <<>>
                /\ backcast' = NoValue
                /\ UNCHANGED _backcast
           ELSE /\ resids' = r
                /\ backcast' = used
                /\ _backcast' = IF fresh THEN used ELSE _backcast
                /\ log' = << "starting_values", "resids", "v.variance_bounds" >>
                          \o (IF fresh THEN << "v.backcast" >> ELSE <<>>)
                          \o << "approx_hess" >>
                \* approx_hess calls self._loglikelihood(x, **kwargs); np.linalg.inv
                \* raises LinAlgError for a singular Hessian
                /\ outcome' \in
                    IF ~Binds(1, ParamCovKwargs) THEN {"TypeError"}
                    ELSE {"LinAlgError",
                          IF robust THEN "inv_hess.score_cov.inv_hess/nobs"
                          ELSE "inv_hess/nobs"}
    /\ UNCHANGED << model_vars, callback_vars, _fit_indices, final, pc, params,
                    parts >>

(***************************************************************************)
(* The model instance and its calls                                        *)
(***************************************************************************)
\* the constraints of a sub-model with k parameters: no rows, or rows
\* requiring the sum of its parameters to be positive
RowsOfOnes(k, r) ==
    [A |-> [shape |-> <<r, k>>, val |-> [i \in 1..r |-> Ones(k)]],
     b |-> [i \in 1..r |-> 0]]
ModelConstraints(k) ==
    IF k = 0 THEN { RowsOfOnes(0, 0) } ELSE { RowsOfOnes(k, r) : r \in 0..MaxR }

Init ==
    /\ has_data \in BOOLEAN
    /\ nvar \in NVars
    /\ offsets \in [1..3 -> 0..MaxK]
    /\ closed_form \in BOOLEAN
    /\ cf_implemented \in SUBSET CovTypes
    /\ constraints \in { c \in [1..3 -> UNION { ModelConstraints(k) : k \in 0..MaxK }] :
                            \A i \in 1..3 : c[i] \in ModelConstraints(offsets[i]) }
    \* one instance without data is enough: fit stops at its first line
    /\ ~has_data => /\ closed_form = FALSE
                    /\ cf_implemented = CovTypes
                    /\ \A i \in 1..3 : offsets[i] = 0
    /\ _backcast = NoValue
    /\ _fit_indices = NoValue
    \* the progress state is process-wide: the instance without data may be
    \* built after a fit of another model has left its counts behind
    /\ \E prior \in (IF has_data THEN { << 0, 0, 0 >> } ELSE PriorProgress) :
            /\ _callback_iter = prior[1]
            /\ _callback_func_count = prior[2]
            /\ _callback_llf = prior[3]
    /\ pc = "idle"
    /\ call = NoCall
    /\ resids = <<>>
    /\ backcast = NoValue
    /\ a = EmptySystem.a
    /\ b = EmptySystem.b
    /\ bounds = <<>>
    /\ sv = <<>>
    /\ opt = NoOpt
    /\ final = NoFinal
    /\ outcome = "none"
    /\ warned = {}
    /\ log = <<>>
    /\ params = <<>>
    /\ parts = <<>>

Next ==
    \/ FitEnter
    \/ FitClosedForm
    \/ FitResids
    \/ FitConstraints
    \/ FitStartingValues
    \/ FitMinimize
    \/ FitReturn
    \/ ComputeParamCov

Spec == Init /\ [][Next]_vars

(***************************************************************************)
(* Specification of the parameter layout alone: the four places where fit  *)
(* lays the three sub-models side by side (constraint columns 326-334,     *)
(* bounds 336-338, synthesized starting values 355-358, the split 396).    *)
(* The sub-models mark what they return with their own number: 1 the mean, *)
(* 2 the volatility, 3 the distribution.                                   *)
(***************************************************************************)
\* the (A, b) of sub-model i with k parameters and r rows
OwnerConstraints(i, k, r) ==
    [A |-> [shape |-> <<r, k>>, val |-> [x \in 1..r |-> [j \in 1..k |-> i]]],
     b |-> [x \in 1..r |-> i]]

\* the bounds and the starting values of sub-model i, of its own length
OwnerBounds(i) == [j \in 1..offsets[i] |-> << 0 - i, i >>]
OwnerStartingValues(i) == [j \in 1..offsets[i] |-> i]

InitLayout ==
    /\ InitIdleFit
    /\ nvar = 2
    /\ offsets \in [1..3 -> 0..MaxK]
    /\ constraints \in
        { c \in [1..3 -> UNION { { OwnerConstraints(i, k, r) : r \in 0..MaxR } :
                                   i \in 1..3, k \in 0..MaxK }] :
            \A i \in 1..3 :
                \E r \in 0..MaxR : c[i] = OwnerConstraints(i, offsets[i], r) }
    /\ a = EmptySystem.a
    /\ b = EmptySystem.b
    /\ bounds = <<>>
    /\ params = [i \in 1..(offsets[1] + offsets[2] + offsets[3]) |-> i]
    /\ parts = <<>>
    /\ pc = "layout_call"

LayParameters ==
    /\ pc = "layout_call"
    /\ a' = Assemble(constraints, offsets).a
    /\ b' = Assemble(constraints, offsets).b
    /\ bounds' = ExtendBounds(OwnerBounds(1), OwnerBounds(2), OwnerBounds(3))
    /\ sv' = HStack(OwnerStartingValues(1), OwnerStartingValues(2),
                    OwnerStartingValues(3))
    /\ parts' = _parse_parameters(params)
    /\ pc' = "layout_done"
    /\ UNCHANGED << model_vars, callback_vars, _backcast, _fit_indices, call,
                    resids, backcast, opt, final, outcome, warned, log, params >>

NextLayout == LayParameters

SpecLayout == InitLayout /\ [][NextLayout]_vars

(***************************************************************************)
(* C10: every vector of length km+kv+kd is split into parts of lengths     *)
(* km, kv and kd, in the order (mean, volatility, distribution), and the   *)
(* concatenation of the three parts is the original vector.                *)
(***************************************************************************)
C10_ParseRoundTrip ==
    (pc = "parse_done" /\ Len(params) = offsets[1] + offsets[2] + offsets[3])
        => /\ Len(parts) = 3
           /\ Len(parts[1]) = offsets[1]
           /\ Len(parts[2]) = offsets[2]
           /\ Len(parts[3]) = offsets[3]
           /\ parts[1] \o parts[2] \o parts[3] = params

C10_Witness ==
    /\ pc = "parse_done"
    /\ Len(params) = offsets[1] + offsets[2] + offsets[3]
    /\ offsets[1] > 0 /\ offsets[2] > 0 /\ offsets[3] > 0
    /\ parts[1] # parts[3]

(***************************************************************************)
(* C9: the assembled system has r1+r2+r3 rows and k1+k2+k3 columns, A_i    *)
(* and b_i sit in the row range and column block of sub-model i, every     *)
(* other entry of A is zero, and sub-models with zero rows are skipped     *)
(* (all three with zero rows: zero rows, km+kv+kd columns).                *)
(***************************************************************************)
BlockRows(i) == SumSeq([j \in 1..(i - 1) |-> constraints[j].A.shape[1]])
BlockCols(i) == SumSeq([j \in 1..(i - 1) |-> constraints[j].A.shape[2]])
InBlock(i, r, c) ==
    /\ r > BlockRows(i) /\ r <= BlockRows(i) + constraints[i].A.shape[1]
    /\ c > BlockCols(i) /\ c <= BlockCols(i) + constraints[i].A.shape[2]

C9_BlockDiagonal ==
    pc = "assemble_done" =>
        /\ a.shape = << BlockRows(4), BlockCols(4) >>
        /\ Len(a.val) = BlockRows(4)
        /\ Len(b) = BlockRows(4)
        /\ \A r \in 1..BlockRows(4) :
            /\ Len(a.val[r]) = BlockCols(4)
            /\ \A i \in 1..3 :
                 (r > BlockRows(i) /\ r <= BlockRows(i + 1))
                    => b[r] = constraints[i].b[r - BlockRows(i)]
            /\ \A c \in 1..BlockCols(4) :
                 /\ \A i \in 1..3 :
                      InBlock(i, r, c) =>
                        a.val[r][c] =
                          constraints[i].A.val[r - BlockRows(i)][c - BlockCols(i)]
                 /\ (\A i \in 1..3 : ~InBlock(i, r, c)) => a.val[r][c] = 0

C9_Witness ==
    /\ pc = "assemble_done"
    /\ constraints[1].A.shape = <<0, 1>>
    /\ constraints[2].A.shape = <<1, 1>>
    /\ constraints[3].A.shape = <<1, 1>>
    /\ a.shape = <<2, 3>>

(***************************************************************************)
(* Vocabulary of the claims about fit and compute_param_cov                *)
(***************************************************************************)
InLog(e) == \E i \in 1..Len(log) : log[i] = e
LastLogged(e) == Len(log) > 0 /\ log[Len(log)] = e

\* the state right after the starting-value step of a fit (lines 340-358)
Resolved == call.op = "fit" /\ LastLogged("starting value resolution")

\* what only the general path does (lines 303-418)
GeneralPositions ==
    {"resids", "constraints", "starting_values", "minimize", "finish"}
GeneralCalls ==
    {"starting_values", "resids", "v.backcast", "v.starting_values",
     "v.compute_covariance", "constraints", "bounds",
     "starting value resolution", "_loglikelihood", "minimize", "reshape"}
EnteredGeneral ==
    pc \in GeneralPositions \/ \E e \in GeneralCalls : InLog(e)

\* x_i strictly inside its bound pair, for every i
StrictlyWithinBounds(x, bds) ==
    \A i \in 1..Len(bds) : bds[i][1] < x[i] /\ x[i] < bds[i][2]

(***************************************************************************)
(* C1: a caller-supplied starting-value vector x is used unchanged as the  *)
(* optimizer's starting point iff its length is km+kv+kd, A.x - b > 0      *)
(* holds on every row, and lo_i < x_i < hi_i for every i; in every other   *)
(* case a StartingValueWarning is emitted and the synthesized defaults are *)
(* used.                                                                   *)
(***************************************************************************)
C1_StrictlyFeasibleIffUsed ==
    (Resolved /\ call.starting_values.some) =>
        LET x == call.starting_values.val
            feasible ==
                /\ Len(x) = TotalParams
                /\ (a.shape[1] > 0 => SatisfiesConstraints(a, b, x))
                /\ StrictlyWithinBounds(x, Bounds)
        IN  IF feasible
            THEN /\ call.used = "user"
                 /\ sv = x
                 /\ "StartingValueWarning" \notin warned
            ELSE /\ "StartingValueWarning" \in warned
                 /\ call.used = "default"
                 /\ sv = SynthesizedStartingValues

(***************************************************************************)
(* C2: a starting-value vector whose length is not the total parameter     *)
(* count makes fit emit a starting-value warning and continue with the     *)
(* synthesized defaults, with or without constraint rows; the validation   *)
(* raises no exception.                                                    *)
(***************************************************************************)
C2_WrongLengthWarns ==
    (/\ Resolved
     /\ call.starting_values.some
     /\ Len(call.starting_values.val) # TotalParams)
        => /\ outcome = "running"
           /\ "StartingValueWarning" \in warned
           /\ call.used = "default"
           /\ sv = SynthesizedStartingValues

(***************************************************************************)
(* C3 as stated: when the volatility sub-model declares closed_form and    *)
(* the distribution has zero parameters, fit never enters the general      *)
(* path, whatever the closed-form estimator does.                          *)
(***************************************************************************)
C3_NeverGeneral ==
    (call.op = "fit" /\ closed_form /\ offsets[3] = 0) => ~EnteredGeneral

(***************************************************************************)
(* C3 as amended: when the volatility sub-model declares closed_form and   *)
(* the distribution has zero parameters, fit enters the general path only  *)
(* after the closed-form estimator has signalled "not implemented".        *)
(***************************************************************************)
C3_GeneralOnlyAfterNotImplemented ==
    (call.op = "fit" /\ closed_form /\ offsets[3] = 0 /\ EnteredGeneral)
        => InLog("except NotImplementedError")

C3_Witness ==
    /\ call.op = "fit"
    /\ closed_form /\ offsets[3] = 0 /\ TotalParams > 0
    /\ pc = "idle"
    /\ outcome = "returned"
    /\ final.path = "closed_form"
    /\ ~EnteredGeneral

(***************************************************************************)
(* C4: when the closed-form condition holds and the closed-form estimator  *)
(* signals "not implemented", fit falls through to the general path and    *)
(* completes it (reaches the optimizer, returns a result); the signal      *)
(* never escapes fit, also not through the default starting_values().      *)
(***************************************************************************)
C4_FallThroughCompletes ==
    (/\ call.op = "fit"
     /\ closed_form /\ offsets[3] = 0
     /\ InLog("except NotImplementedError")
     /\ pc = "idle")
        => /\ outcome = "returned"
           /\ final.path = "general"
           /\ InLog("minimize")

(***************************************************************************)
(* C5: at the end of the general path the reshaped residual and covariance *)
(* arrays have the original number of time steps; every position outside   *)
(* [first_obs, last_obs) is NaN and position first_obs+k holds the k-th    *)
(* in-window value; the reshape succeeds for every window.                 *)
(***************************************************************************)
Reshaped(arr, window, values) ==
    /\ Len(arr) = NObs
    /\ \A i \in 1..NObs :
        IF i > window[1] /\ i <= window[2]
        THEN arr[i] = Num(values[i - window[1]])
        ELSE arr[i] = NaNCell

C5_ReshapedToOriginalLength ==
    (call.op = "fit" /\ pc = "idle" /\ LastLogged("reshape"))
        => /\ outcome = "returned"
           /\ Reshaped(final.resids_final, _fit_indices.val, resids)
           /\ Reshaped(final.cov_final, _fit_indices.val,
                       ComputeCovariance(parts[2], resids, backcast.val))

(***************************************************************************)
(* C6: a compute_param_cov call without an explicit backcast uses the      *)
(* cached backcast, and that backcast is the one of the fit that produced  *)
(* the parameters (the seed of the sample that fit estimated on).          *)
(***************************************************************************)
C6_BackcastOfProducingFit ==
    (/\ call.op = "compute_param_cov"
     /\ ~call.backcast.some
     /\ outcome # "NotImplementedError"
     /\ final.path # "none")
        => /\ backcast = _backcast
           /\ backcast =
                Some(Backcast(Resids(StartingValues.val, Some(final.window))))

(***************************************************************************)
(* C7: the progress state (iteration counter, function-evaluation counter, *)
(* latest objective value) is zero from the start of every fit call, on    *)
(* both paths, until the first likelihood evaluation of that call.         *)
(***************************************************************************)
C7_ProgressResetAtStart ==
    (call.op = "fit" /\ outcome # "RuntimeError" /\ ~InLog("_loglikelihood"))
        => /\ _callback_iter = 0
           /\ _callback_func_count = 0
           /\ _callback_llf = 0

(***************************************************************************)
(* C8: compute_param_cov on fitted parameters stops with an error only     *)
(* when the Hessian is singular; otherwise it calls the Likelihood         *)
(* Evaluator with the inputs the evaluator accepts and returns             *)
(* inverse-Hessian/nobs (robust=False) or the sandwich/nobs (robust=True). *)
(***************************************************************************)
C8_OnlySingularHessianStops ==
    (call.op = "compute_param_cov" /\ has_data /\ final.path # "none")
        => \/ outcome = "LinAlgError"
           \/ call.robust /\ outcome = "inv_hess.score_cov.inv_hess/nobs"
           \/ ~call.robust /\ outcome = "inv_hess/nobs"

(***************************************************************************)
(* C11: for every index i of the flat parameter vector, the i-th bound     *)
(* pair, the i-th column of the assembled constraint matrix, the i-th      *)
(* synthesized starting value and the block _parse_parameters puts index i *)
(* in belong to the same sub-model, in the order mean, volatility,         *)
(* distribution (each sub-model returning bounds and starting values of    *)
(* its own parameter count).                                               *)
(***************************************************************************)
\* the block of the split that holds index i (0: none)
BlockOf(i) ==
    IF \E k \in 1..3 : \E j \in 1..Len(parts[k]) : parts[k][j] = i
    THEN CHOOSE k \in 1..3 : \E j \in 1..Len(parts[k]) : parts[k][j] = i
    ELSE 0

C11_SameOwner ==
    pc = "layout_done" =>
        /\ Len(bounds) = Len(params)
        /\ Len(sv) = Len(params)
        /\ a.shape[2] = Len(params)
        /\ \A i \in 1..Len(params) :
            LET k == BlockOf(i) IN
            /\ k \in 1..3
            /\ \A m \in 1..(k - 1) : \A j \in 1..Len(parts[m]) : parts[m][j] < i
            /\ bounds[i] = << 0 - k, k >>
            /\ sv[i] = k
            /\ \A r \in 1..a.shape[1] :
                a.val[r][i] = IF r > BlockRows(k) /\ r <= BlockRows(k + 1)
                              THEN k ELSE 0

C11_Witness ==
    /\ pc = "layout_done"
    /\ offsets = << 1, 1, 1 >>
    /\ a.shape = << 3, 3 >>
    /\ sv = << 1, 2, 3 >>
    /\ parts = << <<1>>, <<2>>, <<3>> >>

(***************************************************************************)
(* C12: when the optimizer returns a non-zero status, fit still returns a  *)
(* result holding the optimizer's best point; a ConvergenceWarning is      *)
(* emitted exactly when the status is non-zero and show_warning is true.   *)
(***************************************************************************)
\* a fit that got its answer from the optimizer and ran to its last line
AfterOptimizer == call.op = "fit" /\ pc = "idle" /\ LastLogged("reshape")

C12_NonConvergenceStillReturns ==
    (AfterOptimizer /\ opt.status # 0)
        => /\ outcome = "returned"
           /\ final.path = "general"
           /\ final.params = opt.x
           /\ ("ConvergenceWarning" \in warned) <=> call.show_warning

(***************************************************************************)
(* C13: the parameter split fails with a length-mismatch error for every   *)
(* vector whose length is not km+kv+kd; it never returns three parts for   *)
(* a vector of the wrong length.                                           *)
(***************************************************************************)
C13_WrongLengthFails ==
    (pc = "parse_done" /\ Len(params) # offsets[1] + offsets[2] + offsets[3])
        => /\ outcome # "returned"
           /\ Len(parts) # 3

(***************************************************************************)
(* C14: fit on a model with no data bound raises the configuration error   *)
(* immediately: before the sample is adjusted, before any collaborator is  *)
(* called, and leaving the cached backcast and the progress counters       *)
(* unchanged.                                                              *)
(***************************************************************************)
C14_NoDataRaisesFirst ==
    [][ (FitEnter /\ ~has_data)
            => /\ outcome' = "RuntimeError"
               /\ pc' = "idle"
               /\ log' = <<>>
               /\ UNCHANGED << _fit_indices, _backcast, _callback_iter,
                               _callback_func_count, _callback_llf >> ]_vars

C14_Witness ==
    /\ ~has_data
    /\ call.op = "fit"
    /\ outcome = "RuntimeError"
    /\ _callback_func_count = 2
    /\ _fit_indices = NoValue

(***************************************************************************)
(* C15: every Likelihood Evaluator call returns exactly the negation of    *)
(* the value the distribution reports for (distribution block, residuals   *)
(* of the mean block, covariance path of the volatility block), in         *)
(* aggregate and in per-observation mode, whatever the progress counters   *)
(* are, and increments the function-evaluation counter by exactly one.     *)
(***************************************************************************)
\* what the distribution reports for the split of params
Reported ==
    LET pr    == << PySlice(params, 0, offsets[1]),
                    PySlice(params, offsets[1], offsets[1] + offsets[2]),
                    PySlice(params, offsets[1] + offsets[2], Len(params)) >>
        r     == Resids(pr[1], _fit_indices)
        sigma == ComputeCovariance(pr[2], r, backcast.val)
    IN  IF call.individual THEN DistLogLikelihoodIndividual(pr[3], r, sigma)
        ELSE DistLogLikelihood(pr[3], r, sigma)

\* x is the negation of y
IsNegation(x, y, individual) ==
    IF individual
    THEN /\ Len(x) = Len(y)
         /\ \A t \in 1..Len(y) : x[t] + y[t] = 0
    ELSE x + y = 0

C15_SignFlip ==
    [][ EvaluateLikelihood
            => /\ IsNegation(NegLogLikelihood(params, backcast.val, _fit_indices,
                                              call.individual),
                             Reported, call.individual)
               /\ IsNegation(_callback_llf', Reported, call.individual)
               /\ _callback_func_count' = _callback_func_count + 1
               /\ _callback_iter' = _callback_iter ]_vars

C15_Witness ==
    /\ pc = "llf_done"
    /\ call.individual
    /\ _callback_func_count = 3
    /\ Len(_callback_llf) = NObs
    /\ \E t \in 1..NObs : _callback_llf[t] = 1
    /\ \E t \in 1..NObs : _callback_llf[t] = 0 - 1

(***************************************************************************)
(* C16: for every nvar >= 1 and every closed-form parameter vector of      *)
(* length m + nvar*(nvar+1)/2, the default starting_values() returns the m *)
(* leading parameters, and an empty vector (never None) when m = 0.        *)
(***************************************************************************)
C16_LeadingOrEmpty ==
    pc = "sv_done" =>
        LET m == Len(params) - (nvar * (nvar + 1)) \div 2 IN
        /\ outcome = "returned"
        /\ sv = [i \in 1..m |-> params[i]]

(***************************************************************************)
(* C17: in every call of fit on a model with data the sample adjustment    *)
(* for (first_obs, last_obs) is performed exactly once and before either   *)
(* path starts: before the closed-form estimator and before the first      *)
(* residual computation, so both paths estimate on the requested window.   *)
(***************************************************************************)
\* the window the caller asked for
Requested == AdjustSample(call.window[1], call.window[2])

C17_AdjustedOnceFirst ==
    (call.op = "fit" /\ has_data) =>
        /\ Len(log) >= 1
        /\ log[1] = "_adjust_sample"
        /\ \A i \in 2..Len(log) : log[i] # "_adjust_sample"
        /\ _fit_indices = Some(Requested)
        /\ final.path = "closed_form" => final.window = Requested
        /\ InLog("resids") =>
              Len(resids) = Len(PySlice(Y, Requested[1], Requested[2]))

C17_Witness ==
    /\ call.op = "fit"
    /\ has_data
    /\ call.window = << Some(1), Some(3) >>
    /\ pc = "constraints"
    /\ InLog("except NotImplementedError")
    /\ Len(resids) = 2

=============================================================================
